---- MODULE Spec2Model ----
(***************************************************************************)
(* Model of jupyterhub/apihandlers/users.py: the REST handlers for user    *)
(* accounts and their single-user servers.  Every handler is a coroutine;  *)
(* one action of the model is one synchronous segment of a handler, from   *)
(* its start or from a resumed `yield` up to the next `yield` or to the    *)
(* response.  Requests suspended at a `yield` are kept in the bag `tasks`. *)
(*                                                                         *)
(* What users.py calls but does not define (admin_only, find_user,         *)
(* user_from_username, spawn_single_user, stop_single_user, User.running   *)
(* and the Spawner) is modelled from the design document.                  *)
(***************************************************************************)
EXTENDS Integers, FiniteSets, Sequences, Bags, TLC

\* Number of User objects that can be alive (persisted or still referenced).
MaxIds == 3
\* Number of requests that can be suspended at a yield at the same time.
MaxTasks == 2
\* Number of spawns, and of stops, one Spawner can have in flight.
MaxOps == 2

Ids == 1..MaxIds
NoCaller == 0
Names == {"admin", "alice"}

VARIABLES
    db,        \* ids of the User rows committed to the Store
    users,     \* id -> the fields of the User object
    alive,     \* id -> the Spawner's process is alive (poll() returns None)
    spawnOps,  \* id -> spawns initiated on the Spawner and not yet complete
    stopOps,   \* id -> stops issued to the Spawner and not yet complete
    tasks,     \* bag of the requests suspended at a yield
    last       \* the record of the handler step just taken (NoEvent once observed)

vars == <<db, users, alive, spawnOps, stopOps, tasks, last>>

----------------------------------------------------------------------------
\* Request bodies, as get_json_body() returns them.

JStr(s) == [t |-> "str", s |-> s, b |-> FALSE, n |-> 0]
JBool(b) == [t |-> "bool", s |-> "", b |-> b, n |-> 0]
JInt(n) == [t |-> "int", s |-> "", b |-> FALSE, n |-> n]

\* A JSON object is a set of <<key, value>> items; a list is modelled by its length.
Dict(items) == [t |-> "dict", items |-> items, n |-> 0, b |-> FALSE]
List(n) == [t |-> "list", items |-> {}, n |-> n, b |-> FALSE]
Scalar(v) == [t |-> v.t, items |-> {}, n |-> IF v.t = "str" THEN Len(v.s) ELSE v.n, b |-> v.b]
Null == [t |-> "null", items |-> {}, n |-> 0, b |-> FALSE]

\* Bodies that would make a second administrator are left out.
Payloads ==
    { Null, List(0), List(1), Scalar(JInt(0)), Scalar(JBool(FALSE)),
      Dict({}),
      Dict({<<"admin", JBool(FALSE)>>}),
      Dict({<<"admin", JStr("yes")>>}),
      Dict({<<"name", JStr("admin")>>}),
      Dict({<<"foo", JInt(1)>>}),
      Dict({<<"admin", JBool(TRUE)>>, <<"foo", JInt(1)>>}),
      Dict({<<"name", JStr("admin")>>, <<"foo", JInt(1)>>}) }

\* Python truthiness, as `if data:` evaluates it.
Truthy(data) ==
    CASE data.t = "dict" -> data.items # {}
      [] data.t = "list" -> data.n > 0
      [] data.t = "str"  -> data.n > 0
      [] data.t = "int"  -> data.n # 0
      [] data.t = "bool" -> data.b
      [] OTHER           -> FALSE

Keys(data) == {it[1] : it \in data.items}

model_types == [name |-> "str", admin |-> "bool"]

\* _check_user_model: "ok", or the kind of the HTTPError(400) it raises.
check_user_model(data) ==
    IF data.t # "dict" THEN "InvalidPayload"
    ELSE IF ~(Keys(data) \subseteq DOMAIN model_types) THEN "InvalidKeys"
    ELSE IF \E it \in data.items : it[2].t # model_types[it[1]] THEN "TypeMismatch"
    ELSE "ok"

----------------------------------------------------------------------------
\* The User object and the Store.

NewUser(name) ==
    [name |-> name, admin |-> FALSE, spawner |-> FALSE, server |-> FALSE,
     spawn_pending |-> FALSE, stop_pending |-> FALSE]

\* User.running
running(u) == u.spawner /\ u.server

\* find_user(name): the rows of that name (None when there is none).
find_user(name) == {i \in db : users[i].name = name}

\* admin_only
admin_only(c) == c # NoCaller /\ users[c].admin

\* admin_or_self looking the user up before it looks at the caller.
admin_or_self_resolves_first(c, name) ==
    IF find_user(name) = {} THEN 404
    ELSE IF c = NoCaller THEN 403
    ELSE IF ~(users[c].name = name \/ users[c].admin) THEN 403
    ELSE 0

\* admin_or_self: 0 when the wrapped method runs, else the status of the HTTPError.
admin_or_self(c, name) ==
    IF c = NoCaller THEN 403
    ELSE IF ~(users[c].name = name \/ users[c].admin) THEN 403
    ELSE IF find_user(name) = {} THEN 404
    ELSE 0

\* get_current_user(): nobody, or a user of the Store.
Callers == {NoCaller} \cup db

\* The names the server requests are made for: a user, and a name nobody has.
ServerNames == {"alice", "bob"}

\* The names the records are asked for.
GetNames == Names \cup ServerNames

----------------------------------------------------------------------------
\* The record of a handler step: the request, and the response if the step made one.

NoEvent == [op |-> "none", status |-> 0, kind |-> "none", id |-> 0, name |-> "", tags |-> {}]
Event(op, status, kind, id, name, tags) ==
    [op |-> op, status |-> status, kind |-> kind, id |-> id, name |-> name, tags |-> tags]

\* What the caller of a request for accounts is.
AdminTags(c) ==
    {"arrival"}
    \cup (IF c # NoCaller /\ users[c].admin THEN {"admin"} ELSE {})
    \cup (IF c = NoCaller THEN {"anonymous"} ELSE {})

\* What the caller of a request is.
CallerTags(c, name) ==
    {"arrival"}
    \cup (IF c # NoCaller /\ users[c].admin THEN {"admin"} ELSE {})
    \cup (IF c # NoCaller /\ users[c].name = name THEN {"self"} ELSE {})
    \cup (IF c = NoCaller THEN {"anonymous"} ELSE {})

\* A suspended request: its handler, the yield it waits at, its user and,
\* where the handler uses it after the yield, the name it was made for.
Task(op, pc, id) == [op |-> op, pc |-> pc, id |-> id, name |-> ""]
NamedTask(op, pc, id, name) == [op |-> op, pc |-> pc, id |-> id, name |-> name]
Add(T, t) == T (+) SetToBag({t})
Remove(T, t) == T (-) SetToBag({t})
CanSuspend == BagCardinality(tasks) < MaxTasks
Suspended(op, pc) == {t \in BagToSet(tasks) : t.op = op /\ t.pc = pc}

\* The objects nothing refers to any more: no row, no request, no Spawner
\* operation, no record.
Garbage(d, S, K, T, e) ==
    {i \in Ids : i \notin d /\ i \notin {t.id : t \in BagToSet(T)}
                 /\ S[i] = 0 /\ K[i] = 0 /\ i # e.id}

\* The state after a step; an object nothing refers to is freed.
Commit(d, U, A, S, K, T, e) ==
    LET g == Garbage(d, S, K, T, e) IN
    /\ db' = d
    /\ users' = [i \in Ids |-> IF i \in g THEN NewUser("") ELSE U[i]]
    /\ alive' = [i \in Ids |-> IF i \in g THEN FALSE ELSE A[i]]
    /\ spawnOps' = S
    /\ stopOps' = K
    /\ tasks' = T
    /\ last' = e

\* A handler step that raises or returns without touching anything.
Reply(e) == Commit(db, users, alive, spawnOps, stopOps, tasks, e)

\* The step just taken has been observed.
Observe ==
    /\ last # NoEvent
    /\ Commit(db, users, alive, spawnOps, stopOps, tasks, NoEvent)

Idle == last = NoEvent

\* user_from_username(name): a new row of that name, added and committed.
user_from_username(i) ==
    /\ i \in Garbage(db, spawnOps, stopOps, tasks, last)
    /\ \A j \in Garbage(db, spawnOps, stopOps, tasks, last) : i <= j

\* The deletion never committed.
db_delete_lost(d, i) == d

\* db.delete(user); db.commit(): a row that is already gone stays gone.
db_delete(d, i) == d \ {i}

\* spawn_single_user(user): the spawn is initiated on the Spawner and the user
\* becomes SpawnPending before the handler is suspended.
spawn_single_user(U, i) == [U EXCEPT ![i].spawner = TRUE, ![i].spawn_pending = TRUE]

\* stop_single_user(user): the stop is issued to the Spawner and the user
\* becomes StopPending before the handler is suspended.
stop_single_user(U, i) == [U EXCEPT ![i].spawn_pending = FALSE, ![i].stop_pending = TRUE]

\* spawner.poll(): None while the process is alive, else its exit status.
poll(i) == IF alive[i] THEN "None" ELSE "exited"

Inc(f, i) == [f EXCEPT ![i] = @ + 1]
Dec(f, i) == [f EXCEPT ![i] = @ - 1]

----------------------------------------------------------------------------
\* UserAPIHandler.post: CreateUser

\* post() without its test for an existing user.
CreateConflict_never(name) == FALSE

\* if user is not None: raise web.HTTPError(400, "User %s already exists")
CreateConflict(name) == find_user(name) # {}

\* The fields post() sets from the body.
CreateFields(u, data) ==
    IF Truthy(data) /\ "admin" \in Keys(data)
    THEN [u EXCEPT !.admin = (CHOOSE it \in data.items : it[1] = "admin")[2].b]
    ELSE u

\* The error post() raises for the body, "ok" when it raises none.
CreateCheck(data) == IF Truthy(data) THEN check_user_model(data) ELSE "ok"

\* What the body of a request is.
DataTags(data) ==
    (IF data.t # "dict" THEN {"not_dict"} ELSE {})
    \cup (IF data.t = "dict" /\ ~(Keys(data) \subseteq {"name", "admin"})
          THEN {"bad_key"} ELSE {})
    \cup (IF data.t = "dict" /\ (\E it \in data.items :
              \/ it[1] = "name" /\ it[2].t # "str"
              \/ it[1] = "admin" /\ it[2].t # "bool")
          THEN {"bad_type"} ELSE {})
    \cup (IF Truthy(data) THEN {} ELSE {"falsy"})

\* post() once the name is known to be free: the row is made, then the body checked.
CreateNew(i, name, data, tags) ==
    /\ user_from_username(i)
    /\ IF CreateCheck(data) # "ok"
       THEN Commit(db \cup {i}, [users EXCEPT ![i] = NewUser(name)],
                   [alive EXCEPT ![i] = FALSE], spawnOps, stopOps, tasks,
                   Event("CreateUser", 400, CreateCheck(data), i, name, tags))
       ELSE /\ CanSuspend
            /\ Commit(db \cup {i}, [users EXCEPT ![i] = CreateFields(NewUser(name), data)],
                      [alive EXCEPT ![i] = FALSE], spawnOps, stopOps,
                      Add(tasks, NamedTask("CreateUser", "add_user", i, name)),
                      Event("CreateUser", 0, "suspended", i, name, tags))

CreateUser(c, name, data) ==
    LET tags == AdminTags(c) IN
    /\ Idle
    /\ IF ~admin_only(c) THEN Reply(Event("CreateUser", 403, "Forbidden", 0, name, tags))
       ELSE IF CreateConflict(name)
       THEN Reply(Event("CreateUser", 400, "Conflict", 0, name, tags))
       ELSE \E i \in Ids : CreateNew(i, name, data, tags \cup DataTags(data))

\* authenticator.add_user(user) returned, or raised.
CreateFinish(t, ok) ==
    /\ Idle
    /\ t \in Suspended("CreateUser", "add_user")
    /\ IF ok
       THEN Commit(db, users, alive, spawnOps, stopOps, Remove(tasks, t),
                   Event("CreateUser", 201, "Created", t.id, t.name, {}))
       ELSE Commit(db_delete(db, t.id), users, alive, spawnOps, stopOps, Remove(tasks, t),
                   Event("CreateUser", 400, "ProvisioningFailed", t.id, t.name,
                         {"add_user_failed"}))

----------------------------------------------------------------------------
\* UserAPIHandler.delete: DeleteUser

\* delete() without its test for the caller's own name.
DeleteCheck_no_self(u, current) ==
    IF u.stop_pending THEN "ServerBusy"
    ELSE IF u.spawner THEN "stop"
    ELSE "delete_user"

\* delete() refusing a user who has a server instead of stopping the server.
DeleteCheck_never_stops(u, current) ==
    IF u.name = current.name THEN "SelfDeletion"
    ELSE IF u.stop_pending \/ u.spawner THEN "ServerBusy"
    ELSE "delete_user"

\* The checks of delete() on the user it found: the error, or what it goes on to.
DeleteCheck(u, current) ==
    IF u.name = current.name THEN "SelfDeletion"
    ELSE IF u.stop_pending THEN "ServerBusy"
    ELSE IF u.spawner THEN "stop"
    ELSE "delete_user"

DeleteFound(i, c, name, tags) ==
    LET todo == DeleteCheck(users[i], users[c]) IN
    IF todo \in {"SelfDeletion", "ServerBusy"}
    THEN Reply(Event("DeleteUser", 400, todo, i, name, tags))
    ELSE IF todo = "stop"
    THEN /\ CanSuspend
         /\ stopOps[i] < MaxOps
         /\ Commit(db, stop_single_user(users, i), alive, spawnOps, Inc(stopOps, i),
                   Add(tasks, Task("DeleteUser", "stop", i)),
                   Event("DeleteUser", 0, "suspended", i, name, tags \cup {"stop"}))
    ELSE /\ CanSuspend
         /\ Commit(db, users, alive, spawnOps, stopOps,
                   Add(tasks, Task("DeleteUser", "delete_user", i)),
                   Event("DeleteUser", 0, "suspended", i, name, tags \cup {"delete_user"}))

DeleteUser(c, name) ==
    LET tags == CallerTags(c, name) IN
    /\ Idle
    /\ IF ~admin_only(c) THEN Reply(Event("DeleteUser", 403, "Forbidden", 0, name, tags))
       ELSE IF find_user(name) = {}
       THEN Reply(Event("DeleteUser", 404, "NotFound", 0, name, tags))
       ELSE \E i \in find_user(name) : DeleteFound(i, c, name, tags)

\* stop_single_user(user) returned: the stop completed, or is slow.
DeleteAfterStop(t) ==
    /\ Idle
    /\ t \in Suspended("DeleteUser", "stop")
    /\ IF users[t.id].stop_pending
       THEN Commit(db, users, alive, spawnOps, stopOps, Remove(tasks, t),
                   Event("DeleteUser", 400, "ServerBusy", t.id, users[t.id].name, {}))
       ELSE Commit(db, users, alive, spawnOps, stopOps,
                   Add(Remove(tasks, t), Task("DeleteUser", "delete_user", t.id)),
                   Event("DeleteUser", 0, "suspended", t.id, users[t.id].name, {"delete_user"}))

\* authenticator.delete_user(user) returned, or raised.
DeleteFinish(t, ok) ==
    /\ Idle
    /\ t \in Suspended("DeleteUser", "delete_user")
    /\ IF ok
       THEN Commit(db_delete(db, t.id), users, alive, spawnOps, stopOps, Remove(tasks, t),
                   Event("DeleteUser", 204, "NoContent", t.id, users[t.id].name, {}))
       ELSE Commit(db, users, alive, spawnOps, stopOps, Remove(tasks, t),
                   Event("DeleteUser", 500, "Unhandled", t.id, users[t.id].name, {"delete_user_failed"}))

----------------------------------------------------------------------------
\* UserAPIHandler.patch: UpdateUser

\* for key, value in data.items(): setattr(user, key, value)
setattrs(u, data) ==
    [u EXCEPT
       !.name = IF "name" \in Keys(data)
                THEN (CHOOSE it \in data.items : it[1] = "name")[2].s ELSE @,
       !.admin = IF "admin" \in Keys(data)
                 THEN (CHOOSE it \in data.items : it[1] = "admin")[2].b ELSE @]

\* patch() applying the body before it checks it.
PatchFound_applies_first(i, name, data, tags) ==
    Commit(db, [users EXCEPT ![i] = IF data.t = "dict" THEN setattrs(users[i], data) ELSE @],
           alive, spawnOps, stopOps, tasks,
           IF check_user_model(data) # "ok"
           THEN Event("UpdateUser", 400, check_user_model(data), i, name, tags)
           ELSE Event("UpdateUser", 200, "OK", i, name, tags))

\* patch() once the user is found: the body is checked, then applied.
PatchFound(i, name, data, tags) ==
    IF check_user_model(data) # "ok"
    THEN Reply(Event("UpdateUser", 400, check_user_model(data), i, name, tags))
    ELSE Commit(db, [users EXCEPT ![i] = setattrs(users[i], data)], alive, spawnOps,
                stopOps, tasks, Event("UpdateUser", 200, "OK", i, name, tags))

PatchUser(c, name, data) ==
    LET tags == AdminTags(c) IN
    /\ Idle
    /\ IF ~admin_only(c) THEN Reply(Event("UpdateUser", 403, "Forbidden", 0, name, tags))
       ELSE IF find_user(name) = {}
       THEN Reply(Event("UpdateUser", 404, "NotFound", 0, name, tags))
       ELSE \E i \in find_user(name) : PatchFound(i, name, data, tags \cup DataTags(data))

----------------------------------------------------------------------------
\* UserServerAPIHandler.post: SpawnServer

\* The HTTPError admin_or_self raises.
Denied(op, c, name, tags) ==
    Reply(Event(op, admin_or_self(c, name),
                IF admin_or_self(c, name) = 403 THEN "Forbidden" ELSE "NotFound",
                0, name, tags))

\* yield self.spawn_single_user(user)
Spawn(T, i, name, tags) ==
    /\ spawnOps[i] < MaxOps
    /\ Commit(db, spawn_single_user(users, i), alive, Inc(spawnOps, i), stopOps,
              Add(T, Task("SpawnServer", "spawn", i)),
              Event("SpawnServer", 0, "suspended", i, name, tags \cup {"spawn"}))

\* if user.spawner: the handler polls before it spawns.
SpawnPolls(u) == u.spawner

\* The test of the poll result inverted.
AlreadyRunning_inverted(state) == state # "None"

\* if state is None: the server is already running.
AlreadyRunning(state) == state = "None"

SpawnServer(c, name) ==
    LET tags == CallerTags(c, name) IN
    /\ Idle
    /\ IF admin_or_self(c, name) # 0 THEN Denied("SpawnServer", c, name, tags)
       ELSE \E i \in find_user(name) :
            /\ CanSuspend
            /\ IF SpawnPolls(users[i])
               THEN Commit(db, users, alive, spawnOps, stopOps,
                           Add(tasks, Task("SpawnServer", "poll", i)),
                           Event("SpawnServer", 0, "suspended", i, name, tags \cup {"poll"}))
               ELSE Spawn(tasks, i, name, tags)

\* user.spawner.poll() returned.
SpawnAfterPoll(t) ==
    /\ Idle
    /\ t \in Suspended("SpawnServer", "poll")
    /\ IF AlreadyRunning(poll(t.id))
       THEN Commit(db, users, alive, spawnOps, stopOps, Remove(tasks, t),
                   Event("SpawnServer", 400, "AlreadyRunning", t.id, users[t.id].name, {"polled"}))
       ELSE Spawn(Remove(tasks, t), t.id, users[t.id].name, {"polled"})

\* spawn_single_user(user) returned: the spawn completed, or is slow.
SpawnFinish(t) ==
    /\ Idle
    /\ t \in Suspended("SpawnServer", "spawn")
    /\ Commit(db, users, alive, spawnOps, stopOps, Remove(tasks, t),
              IF users[t.id].spawn_pending
              THEN Event("SpawnServer", 202, "Accepted", t.id, users[t.id].name, {})
              ELSE Event("SpawnServer", 201, "Created", t.id, users[t.id].name, {}))

----------------------------------------------------------------------------
\* UserServerAPIHandler.delete: StopServer

\* delete() without its test of stop_pending.
StopCheck_no_pending(u) == IF ~running(u) THEN "NotRunning" ELSE "poll"

\* delete() without its test of user.running.
StopCheck_no_running(u) == IF u.stop_pending THEN "Accepted" ELSE "poll"

\* The checks of delete() before it polls: the response, "poll" when it goes on.
StopCheck(u) ==
    IF u.stop_pending THEN "Accepted"
    ELSE IF ~running(u) THEN "NotRunning"
    ELSE "poll"

StopServer(c, name) ==
    LET tags == CallerTags(c, name) IN
    /\ Idle
    /\ IF admin_or_self(c, name) # 0 THEN Denied("StopServer", c, name, tags)
       ELSE \E i \in find_user(name) :
            IF StopCheck(users[i]) = "Accepted"
            THEN Reply(Event("StopServer", 202, "Accepted", i, name, tags))
            ELSE IF StopCheck(users[i]) = "NotRunning"
            THEN Reply(Event("StopServer", 400, "NotRunning", i, name, tags))
            ELSE /\ CanSuspend
                 /\ Commit(db, users, alive, spawnOps, stopOps,
                           Add(tasks, Task("StopServer", "poll", i)),
                           Event("StopServer", 0, "suspended", i, name, tags \cup {"poll"}))

\* user.spawner.poll() returned.
StopAfterPoll(t) ==
    /\ Idle
    /\ t \in Suspended("StopServer", "poll")
    /\ IF poll(t.id) # "None"
       THEN Commit(db, users, alive, spawnOps, stopOps, Remove(tasks, t),
                   Event("StopServer", 400, "NotRunning", t.id, users[t.id].name, {"polled"}))
       ELSE /\ stopOps[t.id] < MaxOps
            /\ Commit(db, stop_single_user(users, t.id), alive, spawnOps, Inc(stopOps, t.id),
                      Add(Remove(tasks, t), Task("StopServer", "stop", t.id)),
                      Event("StopServer", 0, "suspended", t.id, users[t.id].name, {"polled", "stop"}))

\* stop_single_user(user) returned: the stop completed, or is slow.
StopFinish(t) ==
    /\ Idle
    /\ t \in Suspended("StopServer", "stop")
    /\ Commit(db, users, alive, spawnOps, stopOps, Remove(tasks, t),
              IF users[t.id].stop_pending
              THEN Event("StopServer", 202, "Accepted", t.id, users[t.id].name, {})
              ELSE Event("StopServer", 204, "NoContent", t.id, users[t.id].name, {}))

----------------------------------------------------------------------------
\* UserAPIHandler.get: GetUser

GetUser(c, name) ==
    LET tags == CallerTags(c, name) IN
    /\ Idle
    /\ IF admin_or_self(c, name) # 0 THEN Denied("GetUser", c, name, tags)
       ELSE \E i \in find_user(name) : Reply(Event("GetUser", 200, "OK", i, name, tags))

----------------------------------------------------------------------------
\* UserAdminAccessAPIHandler.post: GrantAdminAccess

\* admin_access is what self.settings.get('admin_access', False) gives the request.
GrantAdminAccess(c, name, admin_access) ==
    LET tags == AdminTags(c) \cup (IF admin_access THEN {"admin_access"} ELSE {}) IN
    /\ Idle
    /\ IF ~admin_only(c) \/ ~admin_access
       THEN Reply(Event("GrantAdminAccess", 403, "Forbidden", 0, name, tags))
       ELSE IF find_user(name) = {}
       THEN Reply(Event("GrantAdminAccess", 404, "NotFound", 0, name, tags))
       ELSE \E i \in find_user(name) :
            IF ~running(users[i])
            THEN Reply(Event("GrantAdminAccess", 400, "NotRunning", i, name, tags))
            ELSE Reply(Event("GrantAdminAccess", 200, "Granted", i, name, tags))

----------------------------------------------------------------------------
\* The Spawner: what goes on between the steps of the handlers.

\* A spawn in flight starts the process.
SpawnerStart(i) ==
    /\ Idle
    /\ spawnOps[i] > 0 /\ ~alive[i]
    /\ Commit(db, users, [alive EXCEPT ![i] = TRUE], spawnOps, stopOps, tasks, NoEvent)

\* A spawn in flight completes: the server is up.
SpawnComplete(i) ==
    /\ Idle
    /\ spawnOps[i] > 0 /\ alive[i]
    /\ Commit(db, [users EXCEPT ![i].spawn_pending = FALSE, ![i].server = TRUE],
              alive, Dec(spawnOps, i), stopOps, tasks, NoEvent)

\* The process exits by itself.
ProcessExit(i) ==
    /\ Idle
    /\ alive[i] /\ users[i].spawner
    /\ Commit(db, users, [alive EXCEPT ![i] = FALSE], spawnOps, stopOps, tasks, NoEvent)

\* A stop in flight ends the process.
StopKill(i) ==
    /\ Idle
    /\ stopOps[i] > 0 /\ alive[i]
    /\ Commit(db, users, [alive EXCEPT ![i] = FALSE], spawnOps, stopOps, tasks, NoEvent)

\* A stop in flight completes: the server is gone and the handle torn down.
StopComplete(i) ==
    /\ Idle
    /\ stopOps[i] > 0 /\ ~alive[i]
    /\ Commit(db, [users EXCEPT ![i].stop_pending = FALSE, ![i].server = FALSE,
                                ![i].spawner = FALSE],
              alive, spawnOps, Dec(stopOps, i), tasks, NoEvent)

----------------------------------------------------------------------------
\* The Store holds an administrator and a user, whose server is up or was never started.
Init ==
    /\ db = {1, 2}
    /\ \E up \in BOOLEAN :
        /\ users = [i \in Ids |->
                      IF i = 1 THEN [NewUser("admin") EXCEPT !.admin = TRUE]
                      ELSE IF i = 2
                      THEN [NewUser("alice") EXCEPT !.spawner = up, !.server = up]
                      ELSE NewUser("")]
        /\ alive = [i \in Ids |-> i = 2 /\ up]
    /\ spawnOps = [i \in Ids |-> 0]
    /\ stopOps = [i \in Ids |-> 0]
    /\ tasks = EmptyBag
    /\ last = NoEvent

\* The requests for accounts.
Accounts ==
    \/ \E c \in Callers, name \in Names, data \in Payloads : CreateUser(c, name, data)
    \/ \E t \in BagToSet(tasks), ok \in BOOLEAN : CreateFinish(t, ok)
    \/ \E c \in Callers, name \in Names, data \in Payloads : PatchUser(c, name, data)

\* The requests to delete an account.
Deletes ==
    \/ \E c \in Callers, name \in Names : DeleteUser(c, name)
    \/ \E t \in BagToSet(tasks) : DeleteAfterStop(t)
    \/ \E t \in BagToSet(tasks), ok \in BOOLEAN : DeleteFinish(t, ok)

\* The requests for servers.
Servers ==
    \/ \E c \in Callers, name \in ServerNames : SpawnServer(c, name)
    \/ \E t \in BagToSet(tasks) : SpawnAfterPoll(t)
    \/ \E t \in BagToSet(tasks) : SpawnFinish(t)
    \/ \E c \in Callers, name \in ServerNames : StopServer(c, name)
    \/ \E t \in BagToSet(tasks) : StopAfterPoll(t)
    \/ \E t \in BagToSet(tasks) : StopFinish(t)
    \/ \E i \in Ids : SpawnerStart(i)
    \/ \E i \in Ids : SpawnComplete(i)
    \/ \E c \in Callers, name \in GetNames : GetUser(c, name)
    \/ \E c \in Callers, name \in GetNames, admin_access \in BOOLEAN :
          GrantAdminAccess(c, name, admin_access)

\* What the Spawner does to a server that is up.
Stops ==
    \/ \E i \in Ids : ProcessExit(i)
    \/ \E i \in Ids : StopKill(i)
    \/ \E i \in Ids : StopComplete(i)

\* The servers' life cycle, and the deletion of accounts.
Next == Servers \/ Deletes \/ Stops \/ Observe

Spec == Init /\ [][Next]_vars

\* The accounts' life cycle.
NextUsers == Accounts \/ Deletes \/ Stops \/ Observe

SpecUsers == Init /\ [][NextUsers]_vars

\* An administrator keeps asking to delete alice, whose server is Running; nobody
\* asks anything else of alice and authenticator.delete_user succeeds.  Requests
\* for other names go on meanwhile.
InitRetry == Init /\ running(users[2])

OtherNames == GetNames \ {"alice"}
Elsewhere ==
    \/ \E c \in Callers, name \in OtherNames : DeleteUser(c, name)
    \/ \E c \in Callers, name \in OtherNames : GetUser(c, name)

Retry == \E c \in {c \in Callers : admin_only(c)} : DeleteUser(c, "alice")
RetryAfterStop == \E t \in BagToSet(tasks) : DeleteAfterStop(t)
RetryFinish == \E t \in BagToSet(tasks) : DeleteFinish(t, TRUE)

NextRetry ==
    \/ Retry
    \/ RetryAfterStop
    \/ RetryFinish
    \/ Elsewhere
    \/ Stops
    \/ Observe

\* The IOLoop resumes every coroutine whose future is done, the Spawner completes
\* every stop it was given and the administrator retries; the fairness is strong
\* because a step is not enabled while the step before it is being observed.
FairRetry ==
    /\ SF_vars(Retry)
    /\ SF_vars(RetryAfterStop)
    /\ SF_vars(RetryFinish)
    /\ SF_vars(\E i \in Ids : StopKill(i))
    /\ SF_vars(\E i \in Ids : StopComplete(i))
    /\ WF_vars(Observe)

SpecRetry == InitRetry /\ [][NextRetry]_vars /\ FairRetry

----------------------------------------------------------------------------
\* The steps the properties are about.

Arrival(op) == last.op = op /\ "arrival" \in last.tags
Arrived(op) == last'.op = op /\ "arrival" \in last'.tags
Resumed(op, tag) == last'.op = op /\ tag \in last'.tags /\ "arrival" \notin last'.tags
Pending(u) == u.spawn_pending \/ u.stop_pending

\* C1: no user is ever SpawnPending and StopPending at once, whatever the
\* interleaving of SpawnServer, StopServer and DeleteUser.
C1_NeverBothPending ==
    \A i \in Ids : ~(users[i].spawn_pending /\ users[i].stop_pending)

\* C2: of two SpawnServer requests for one user that run at the same time, at most
\* one initiates a spawn: never do two of them wait for a spawn they initiated.
C2_OneSpawnOfTwo ==
    \A i \in Ids : CopiesIn(Task("SpawnServer", "spawn", i), tasks) <= 1

\* C3: SpawnServer answers 400 "already running" and initiates nothing when the
\* user has a handle whose poll() says the process is alive; it initiates a spawn
\* when there is no handle, or when poll() says the process has exited.
C3_SpawnOnlyWithoutLiveProcess ==
    [][/\ (Arrived("SpawnServer") /\ last'.status \notin {403, 404}) =>
            IF users[last'.id].spawner
            THEN "poll" \in last'.tags /\ spawnOps' = spawnOps /\ users' = users
            ELSE /\ "spawn" \in last'.tags
                 /\ spawnOps'[last'.id] = spawnOps[last'.id] + 1
                 /\ users'[last'.id].spawn_pending
       /\ Resumed("SpawnServer", "polled") =>
            IF alive[last'.id]
            THEN /\ last'.status = 400 /\ last'.kind = "AlreadyRunning"
                 /\ spawnOps' = spawnOps /\ users' = users
            ELSE /\ "spawn" \in last'.tags
                 /\ spawnOps'[last'.id] = spawnOps[last'.id] + 1
                 /\ users'[last'.id].spawn_pending
      ]_vars

C3_Witness ==
    /\ last.op = "SpawnServer" /\ last.kind = "AlreadyRunning"
    /\ users[last.id].spawner /\ alive[last.id]

\* C4: when DeleteUser removes the record, the user's server is stopped: it is
\* neither Running nor SpawnPending nor StopPending.
C4_RemovedOnlyWhenStopped ==
    (last.op = "DeleteUser" /\ last.kind = "NoContent") =>
        /\ ~running(users[last.id])
        /\ ~Pending(users[last.id])

\* C10: a StopServer request that passes the gate while the user is StopPending is
\* answered 202 Accepted; it polls nothing and issues no stop, so the stops in
\* flight stay as they are.
C10_StopWhilePendingIsAccepted ==
    [][(Arrived("StopServer") /\ last'.status \notin {403, 404}
            /\ users[last'.id].stop_pending) =>
         /\ last'.status = 202 /\ last'.kind = "Accepted"
         /\ UNCHANGED <<db, users, alive, spawnOps, stopOps, tasks>>
      ]_vars

C10_Witness ==
    /\ Arrival("StopServer") /\ last.kind = "Accepted"
    /\ users[last.id].stop_pending /\ stopOps[last.id] = 1

C6_InvalidBodyCreatesNothing ==
    (last.op = "CreateUser"
        /\ last.kind \in {"InvalidPayload", "InvalidKeys", "TypeMismatch"}) =>
        find_user(last.name) = {}

\* C7: an UpdateUser request whose body has a key other than name and admin is
\* answered 400 InvalidKeys and changes no field of any record.
C7_BadKeyChangesNothing ==
    [][(last'.op = "UpdateUser" /\ "bad_key" \in last'.tags) =>
         /\ last'.status = 400 /\ last'.kind = "InvalidKeys"
         /\ UNCHANGED <<db, users>>
      ]_vars

C7_Witness ==
    /\ last.op = "UpdateUser" /\ "bad_key" \in last.tags /\ last.kind = "InvalidKeys"
    /\ last.id \in db /\ users[last.id].name = "alice"

\* C8: for an administrator, CreateUser(name) is answered Conflict exactly when a
\* record of that name is in the Store as the request is handled, and a request
\* answered Conflict changes no record.
C8_ConflictIffExists ==
    [][(Arrived("CreateUser") /\ "admin" \in last'.tags) =>
         /\ (last'.kind = "Conflict") <=> (\E i \in db : users[i].name = last'.name)
         /\ last'.kind = "Conflict" => (last'.status = 400 /\ UNCHANGED <<db, users>>)
      ]_vars

C8_Witness ==
    /\ Arrival("CreateUser") /\ "admin" \in last.tags /\ last.kind = "Conflict"
    /\ \E i \in db : users[i].name = last.name

\* C9 as claimed: DeleteUser of the caller's own name always fails with
\* SelfDeletion, whatever the caller's privilege.
C9_SelfDeletionAlways ==
    (Arrival("DeleteUser") /\ "self" \in last.tags) => last.kind = "SelfDeletion"

\* C9 as amended: DeleteUser of the caller's own name always fails, with
\* SelfDeletion for an administrator and with Forbidden for any other caller; the
\* records stay as they are, no stop is issued and no request is left waiting for
\* the Authenticator.
C9_SelfDeletionFails ==
    [][(Arrived("DeleteUser") /\ "self" \in last'.tags) =>
         /\ last'.kind = (IF "admin" \in last'.tags THEN "SelfDeletion" ELSE "Forbidden")
         /\ last'.status = (IF "admin" \in last'.tags THEN 400 ELSE 403)
         /\ UNCHANGED <<db, users, alive, spawnOps, stopOps, tasks>>
      ]_vars

C9_Witness ==
    /\ Arrival("DeleteUser") /\ "self" \in last.tags /\ "admin" \in last.tags
    /\ last.kind = "SelfDeletion" /\ last.id \in db

\* C11: a StopServer request that passes the gate for a user in the NoServer state
\* (no handle, nothing pending) is answered 400 NotRunning at once: nothing is
\* polled, no stop is issued and no field of the user changes.
C11_StopWithoutServerFails ==
    [][(Arrived("StopServer") /\ last'.status \notin {403, 404}
            /\ ~users[last'.id].spawner /\ ~Pending(users[last'.id])) =>
         /\ last'.status = 400 /\ last'.kind = "NotRunning"
         /\ "poll" \notin last'.tags
         /\ UNCHANGED <<db, users, alive, spawnOps, stopOps, tasks>>
      ]_vars

C11_Witness ==
    /\ Arrival("StopServer") /\ last.status = 400 /\ last.kind = "NotRunning"
    /\ last.id \in db /\ ~users[last.id].spawner /\ ~Pending(users[last.id])
    /\ stopOps[last.id] = 0

\* C12: GetUser, SpawnServer and StopServer run their body only for a caller who
\* is authenticated and is the target or an administrator, and only when the
\* target exists: nobody, or a non-administrator naming another user, gets 403
\* whether or not the target exists; 404 goes only to a caller who passed the
\* authorization; a refused request changes nothing.
C12_SelfOrAdminGate ==
    [][(last'.op \in {"GetUser", "SpawnServer", "StopServer"}
            /\ "arrival" \in last'.tags) =>
         IF "anonymous" \in last'.tags \/ last'.tags \cap {"self", "admin"} = {}
         THEN /\ last'.status = 403 /\ last'.kind = "Forbidden"
              /\ UNCHANGED <<db, users, alive, spawnOps, stopOps, tasks>>
         ELSE IF \A i \in db : users[i].name # last'.name
         THEN /\ last'.status = 404 /\ last'.kind = "NotFound"
              /\ UNCHANGED <<db, users, alive, spawnOps, stopOps, tasks>>
         ELSE /\ last'.status \notin {403, 404}
              /\ last'.id \in db /\ users[last'.id].name = last'.name
      ]_vars

C12_Witness ==
    /\ Arrival("StopServer") /\ last.status = 403
    /\ "anonymous" \notin last.tags /\ "admin" \notin last.tags
    /\ find_user(last.name) = {}

\* C13: GrantAdminAccess issues the credential only when admin_access is enabled,
\* the target exists and its server is in the Running state; an administrator is
\* answered 403 when admin_access is disabled, 404 when the target is absent and
\* 400 NotRunning when the target is NoServer, SpawnPending or StopPending.
C13_CredentialOnlyWhenRunning ==
    (last.op = "GrantAdminAccess" /\ "admin" \in last.tags) =>
        last.kind =
            (IF "admin_access" \notin last.tags THEN "Forbidden"
             ELSE IF find_user(last.name) = {} THEN "NotFound"
             ELSE IF \E i \in find_user(last.name) :
                        ~running(users[i]) \/ Pending(users[i])
             THEN "NotRunning"
             ELSE "Granted")

\* C14: the name of a record never changes while the record is in the Store,
\* whatever requests are made, UpdateUser with the key name among them.
C14_NameNeverChanges ==
    [][\A i \in db \cap db' : users'[i].name = users[i].name]_vars

\* C15: the Store never holds two records of one name.
C15_OneRecordPerName ==
    \A i, j \in db : users[i].name = users[j].name => i = j

\* C16: a DeleteUser request whose authenticator.delete_user fails is answered
\* with ProvisioningFailed (400): the failure is caught, not left unhandled.
C16_DeleteFailureIsCaught ==
    (last.op = "DeleteUser" /\ "delete_user_failed" \in last.tags) =>
        last.status = 400 /\ last.kind = "ProvisioningFailed"

\* C17: a CreateUser or UpdateUser request that reaches the validation with a body
\* that is not a mapping (a list, a scalar or null, the empty and falsy ones too)
\* is answered 400 InvalidPayload (stated here for a Store whose names are unique).
C17_NonMappingBodyRejected ==
    (last.op \in {"CreateUser", "UpdateUser"} /\ "not_dict" \in last.tags
        /\ C15_OneRecordPerName) =>
        last.status = 400 /\ last.kind = "InvalidPayload"

\* C18: a StopServer request resumed from poll() while the user is StopPending
\* (another request started a stop in the meantime) issues no second stop.
C18_NoSecondStopAfterPoll ==
    [][(Resumed("StopServer", "polled") /\ users[last'.id].stop_pending) =>
         /\ stopOps' = stopOps
         /\ "stop" \notin last'.tags
      ]_vars

\* C19: while a spawn or a stop of a user is in flight no request invokes spawn()
\* or stop() on that user's Spawner.
C19_InFlightIsLeftAlone ==
    [][\A i \in Ids : (spawnOps[i] > 0 \/ stopOps[i] > 0) =>
         /\ spawnOps'[i] <= spawnOps[i]
         /\ stopOps'[i] <= stopOps[i]
      ]_vars

\* C20: when an administrator keeps retrying DeleteUser on a user whose server is
\* Running or StopPending, the Spawner completes every stop, delete_user succeeds
\* and nobody else asks anything of that user, then a DeleteUser is eventually
\* answered 204, the record is absent from the Store from some point on, and a
\* DeleteUser that finds it absent is answered NotFound.
C20_RetriedDeleteSucceeds ==
    /\ <>(last.op = "DeleteUser" /\ last.kind = "NoContent" /\ last.id \notin db)
    /\ <>[](find_user("alice") = {})
    /\ []((Arrival("DeleteUser") /\ "admin" \in last.tags /\ find_user(last.name) = {}) =>
             (last.status = 404 /\ last.kind = "NotFound"))

C20_Witness ==
    /\ last.op = "DeleteUser" /\ last.status = 204 /\ last.kind = "NoContent"
    /\ last.id \notin db /\ find_user("alice") = {}
    /\ ~users[last.id].spawner /\ ~users[last.id].stop_pending

====
